---- MODULE Spec2Model ----
(***************************************************************************)
(* Model of serbo (src/src/lib.rs): a Manager that supervises server       *)
(* processes.  One caller thread drives the Manager (it is used through    *)
(* &mut self), and every started Instance has a stdout pump thread, a      *)
(* stdin pump thread and an external server process running beside it.     *)
(***************************************************************************)
EXTENDS Naturals, Sequences, FiniteSets

(* ------------------------------ bounds -------------------------------- *)
\* lines a server process writes to its stdout in its life
MaxOut == 2
\* lines a caller queues on one instance through Instance::send and
\* direct Instance::stop calls
MaxSend == 1

(* --------------------------- input domains ---------------------------- *)
Ids == {"a"}
Msgs == {"say hi"}
Ports == {25565}
Local == "serv_inst"

\* the jar change_version replaces in a working directory
ReplacedJar == "server.jar"
\* the jar name of the crate's example: Manager::new("servers", "versions",
\* "fabric-server-launch.jar")
DocJar == "fabric-server-launch.jar"
JarNames == {ReplacedJar, DocJar}
\* the version folders; a version folder holds a jar under every name of
\* JarNames (a fabric server is launched from fabric-server-launch.jar and
\* loads server.jar)
BaseVersion == "1.16.1"
Versions == {BaseVersion, "1.16.2"}
NoJar == "none"
Slots == Ids \cup {Local}

\* column at which the stdout pump slices a line (&a[33..])
MarkerColumn == 33
ReadyMarker == "[Server] SERVER READY"
HandshakeCmd == "/say SERVER READY"
StopCmd == "/stop"

\* A stdout line: its length in bytes and its text from byte MarkerColumn on.
ReadyLine == [len |-> 54, tail |-> ReadyMarker]
LogLine == [len |-> 48, tail |-> "Loading"]
ShortLine == [len |-> 12, tail |-> ""]
Lines == {ReadyLine, LogLine, ShortLine}

VARIABLES
  jar_name,   \* Manager.jar_name: the jar that start hands to java -jar
  files,      \* ids whose working directory exists under server_files_folder
  jars,       \* per id, the version of the file jar_name in its directory
  servers,    \* Manager.servers: id -> Instance (NoInst: no entry)
  serv_inst,  \* the local Instance Manager::start is building
  pc,         \* position of the caller thread
  call,       \* the call in progress: operation, id, message, enclosing operation
  last,       \* the call that has just returned: operation, id, result, value
  dropped     \* per id, the processes that dropped Instances left behind

vars == <<jar_name, files, jars, servers, serv_inst, pc, call, last, dropped>>

\* the Manager's configuration and the filesystem under its two folders
disk == <<jar_name, files, jars>>

(* ----------------------------- Instance ------------------------------- *)
NoInst ==
  [id |-> "", port |-> 0, proc |-> "none", stopTried |-> FALSE,
   pipeOut |-> <<>>, console_log |-> <<>>, stdin_queue |-> <<>>,
   thread_cond |-> FALSE, starting |-> FALSE,
   stdout_join |-> FALSE, stdin_join |-> FALSE,
   outPc |-> "none", inPc |-> "none", sent |-> <<>>, written |-> <<>>]

\* Instance { .. } as built by Manager::start, with its two threads spawned.
\* proc: "running", "exited" (not yet waited on) or "reaped".
\* sent: history of the lines pushed on stdin_queue.
\* written: history of the lines the stdin pump has written (writeln! and
\* flush) to the stdin pipe; they reach the process while it is running.
\* stopTried: history, Manager::stop was called on this Instance.
NewInstance(id, port) ==
  [id |-> id, port |-> port, proc |-> "running", stopTried |-> FALSE,
   pipeOut |-> <<>>, console_log |-> <<>>, stdin_queue |-> <<>>,
   thread_cond |-> TRUE, starting |-> TRUE,
   stdout_join |-> FALSE, stdin_join |-> FALSE,
   outPc |-> "check", inPc |-> "loop", sent |-> <<>>, written |-> <<>>]

NoCall == [op |-> "none", id |-> "", msg |-> "", outer |-> "none", arg |-> ""]
NoLast ==
  [op |-> "none", id |-> "", res |-> "", inner |-> "", arg |-> 0, val |-> <<>>,
   target |-> "", next |-> "idle"]

InstAt(s) == IF s = Local THEN serv_inst ELSE servers[s]

SetInst(s, r) ==
  IF s = Local
    THEN serv_inst' = r /\ UNCHANGED servers
    ELSE servers' = [servers EXCEPT ![s] = r] /\ UNCHANGED serv_inst

Registered == {id \in Ids : servers[id] # NoInst}

\* What dropping an Instance leaves behind: Child's drop neither kills nor
\* waits for the process, a dropped JoinHandle detaches its thread.
ThreadRunning(t) == t \notin {"done", "panicked", "none"}

Leftover(i) ==
  [live |-> IF i.proc = "running" THEN 1 ELSE 0,
   unreaped |-> IF i.proc = "exited" THEN 1 ELSE 0,
   threads |-> (IF ThreadRunning(i.outPc) THEN 1 ELSE 0)
               + (IF ThreadRunning(i.inPc) THEN 1 ELSE 0)]

\* the processes (running, or exited and never waited on) of dropped Instances
Drop(id, i) ==
  [dropped EXCEPT ![id] =
     [live |-> @.live + Leftover(i).live,
      unreaped |-> @.unreaped + Leftover(i).unreaped]]

\* Manager::new(server_files_folder, version_folder, jar): no server yet
InitWith(jar) ==
  /\ jar_name = jar
  /\ jars = [id \in Ids |-> NoJar]
  /\ files = {}
  /\ servers = [id \in Ids |-> NoInst]
  /\ serv_inst = NoInst
  /\ pc = "idle"
  /\ call = NoCall
  /\ last = NoLast
  /\ dropped = [id \in Ids |-> [live |-> 0, unreaped |-> 0]]

Init == InitWith(DocJar)

\* A call returns its result to the caller, who goes on at position p
\* ("held": still holding the &mut Instance that Manager::get returned).
ReturnOf(p, op, id, res, inner, target) ==
  /\ pc' = "ret"
  /\ call' = IF p = "held" THEN [NoCall EXCEPT !.op = "held", !.id = id] ELSE NoCall
  /\ last' = [NoLast EXCEPT !.op = op, !.id = id, !.res = res, !.inner = inner,
                            !.target = target, !.next = p]

Return(p, op, id, res, inner) == ReturnOf(p, op, id, res, inner, "")

\* The caller has looked at the result and goes on.
Resume ==
  /\ pc = "ret"
  /\ pc' = last.next
  /\ last' = NoLast
  /\ UNCHANGED <<disk, servers, serv_inst, call, dropped>>

(* --------------------------- Manager::create -------------------------- *)
Exists(id) == id \in files

\* copy_dir(version_folder/version, server_files_folder/id)
Create(id, version) ==
  /\ pc = "idle"
  /\ UNCHANGED <<servers, serv_inst, dropped>>
  /\ IF Exists(id)
       THEN /\ UNCHANGED disk
            /\ Return("idle", "create", id, "AlreadyExists", "")
       ELSE \E ok \in BOOLEAN :
              IF ok
                THEN /\ files' = files \cup {id}
                     /\ jars' = [jars EXCEPT ![id] = version]
                     /\ UNCHANGED jar_name
                     /\ Return("idle", "create", id, "Ok", "")
                ELSE /\ UNCHANGED disk
                     /\ Return("idle", "create", id, "IoError", "")

(* ------------------------ liveness probe, send ------------------------ *)
\* a probe that reports every process as running
IsValid_Always(i) == TRUE

\* Instance::is_valid: try_wait reports no exit status yet.
IsValid(i) == i.proc = "running"

\* Child::try_wait collects the exit status of a process that has exited.
Probe(i) == [i EXCEPT !.proc = IF @ = "exited" THEN "reaped" ELSE @]

\* a stop that takes the write lock of thread_cond before it calls inst.stop()
CondWriteHeld_FromPush(s) ==
  /\ s # Local
  /\ pc \in {"stop_push", "stop_lock", "stop_cond"}
  /\ call.op = "stop" /\ call.id = s

\* Manager::stop holds the write lock of the thread_cond of s: from
\* rw.write() to drop(d).
CondWriteHeld(s) ==
  /\ s # Local
  /\ pc = "stop_cond"
  /\ call.id = s

\* The stdin pump holds the stdin_queue mutex from its lock() to drop(vec):
\* while it waits for the read lock of thread_cond ("locked") and while it
\* drains and writes ("drain").
QueueFree(i) == i.inPc \notin {"drain", "locked"}

\* a push at the head of the queue
Push_Front(q, msg) == <<msg>> \o q

\* vec.push(msg) in Instance::send
Push(q, msg) == Append(q, msg)

Enqueue(i, msg) ==
  [i EXCEPT !.stdin_queue = Push(@, msg), !.sent = Append(@, msg)]

(* ---------------------------- Manager::start -------------------------- *)
\* start without the registry check
AlreadyOnline_NoCheck(id) == FALSE

\* if let Some(_) = self.servers.get(id)
AlreadyOnline(id) == servers[id] # NoInst

\* exists check, registry check, Command::spawn, Instance construction and
\* the spawning of both pump threads.
StartCall(id, port) ==
  /\ pc = "idle"
  /\ UNCHANGED <<disk, servers, dropped>>
  /\ IF ~Exists(id)
       THEN /\ UNCHANGED serv_inst
            /\ Return("idle", "start", id, "FilesMissing", "")
       ELSE IF AlreadyOnline(id)
         THEN /\ UNCHANGED serv_inst
              /\ Return("idle", "start", id, "AlreadyOnline", "")
         ELSE \E ok \in BOOLEAN :
                   IF ok
                     THEN /\ serv_inst' = NewInstance(id, port)
                          /\ pc' = "start_probe"
                          /\ call' = [NoCall EXCEPT !.op = "start", !.id = id,
                                                    !.msg = HandshakeCmd]
                          /\ UNCHANGED last
                     ELSE /\ UNCHANGED serv_inst
                          /\ Return("idle", "start", id, "IoError", "")

\* serv_inst.send("/say SERVER READY")?: the process_check of send.
StartProbe ==
  /\ pc = "start_probe"
  /\ UNCHANGED <<disk, servers>>
  /\ IF IsValid(serv_inst)
       THEN /\ pc' = "start_push"
            /\ UNCHANGED <<serv_inst, call, last, dropped>>
       ELSE /\ serv_inst' = NoInst
            /\ dropped' = Drop(call.id, Probe(serv_inst))
            /\ Return("idle", "start", call.id, "ProcessExited", "")

\* the push of send, then stdout_join / stdin_join and servers.insert.
StartPush ==
  /\ pc = "start_push"
  /\ QueueFree(serv_inst)
  /\ servers' = [servers EXCEPT ![call.id] =
                   [Enqueue(serv_inst, call.msg) EXCEPT !.stdout_join = TRUE,
                                                        !.stdin_join = TRUE]]
  /\ dropped' = Drop(call.id, servers[call.id])
  /\ serv_inst' = NoInst
  /\ UNCHANGED disk
  /\ Return("idle", "start", call.id, "Ok", "")

(* ----------------- Manager::stop, delete, change_version -------------- *)
\* stop without the readiness check
IsStarting_NoCheck(i) == FALSE

\* *inst.starting.read()
IsStarting(i) == i.starting

\* a join that does not wait for the thread
Joined_NoWait(t) == TRUE

\* thread::JoinHandle::join returns once the thread has ended.
Joined(t) == t \in {"done", "panicked"}

\* a wait that does not wait for the process
Exited_NoWait(i) == TRUE

\* Child::wait returns once the process has exited.
Exited(i) == i.proc # "running"

\* How change_version can end in an existing directory: remove_file fails
\* (always, when the file is known to be missing), copy fails after the file
\* has been removed, or both succeed.
ChangeOutcomes(id) ==
  IF jar_name = ReplacedJar /\ jars[id] = NoJar
    THEN {"remove_file"}
    ELSE {"Ok", "remove_file", "copy"}

\* The version of the file jar_name after change_version has removed
\* server.jar and copied the target's server.jar in its place.
JarAfterChange(cur, outcome, target) ==
  IF jar_name # ReplacedJar THEN cur
  ELSE IF outcome = "Ok" THEN target
  ELSE IF outcome = "copy" THEN NoJar
  ELSE cur

\* a delete / change_version that hands on the error of its stop (stop(id)?)
StopReturn_Propagate(p, id, outer, r, target) ==
  IF outer # "none" /\ r # "Ok"
    THEN /\ UNCHANGED disk
         /\ Return("idle", outer, id, r, r)
    ELSE IF outer = "delete"
      THEN IF ~Exists(id)
             THEN /\ UNCHANGED disk
                  /\ Return("idle", "delete", id, "FilesMissing", r)
             ELSE /\ files' = files \ {id}
                  /\ jars' = [jars EXCEPT ![id] = NoJar]
                  /\ UNCHANGED jar_name
                  /\ Return("idle", "delete", id, "Ok", r)
      ELSE /\ UNCHANGED disk
           /\ IF outer = "change_version"
                THEN Return("idle", "change_version", id,
                            IF Exists(id) THEN "Ok" ELSE "FilesMissing", r)
                ELSE Return(p, "stop", id, r, "")

\* Manager::stop returns r; inside delete / change_version the result is
\* discarded and the filesystem part follows.
StopReturn(p, id, outer, r, target) ==
  IF outer = "delete"
    THEN IF ~Exists(id)
           THEN /\ UNCHANGED disk
                /\ Return("idle", "delete", id, "FilesMissing", r)
           ELSE \E ok \in BOOLEAN :
                  IF ok
                    THEN /\ files' = files \ {id}
                         /\ jars' = [jars EXCEPT ![id] = NoJar]
                         /\ UNCHANGED jar_name
                         /\ Return("idle", "delete", id, "Ok", r)
                    ELSE /\ UNCHANGED disk
                         /\ Return("idle", "delete", id, "IoError", r)
    ELSE IF outer = "change_version"
      THEN IF ~Exists(id)
             THEN /\ UNCHANGED disk
                  /\ ReturnOf("idle", "change_version", id, "FilesMissing", r,
                              target)
             ELSE \E outcome \in ChangeOutcomes(id) :
                    /\ jars' = [jars EXCEPT
                                  ![id] = JarAfterChange(@, outcome, target)]
                    /\ UNCHANGED <<jar_name, files>>
                    /\ ReturnOf("idle", "change_version", id,
                                IF outcome = "Ok" THEN "Ok" ELSE "IoError", r,
                                target)
      ELSE /\ UNCHANGED disk
           /\ Return(p, "stop", id, r, "")

\* Manager::stop up to and including the process checks of Instance::stop;
\* outer names the operation that calls it (delete, change_version) or "none",
\* target the version change_version was given.
StopCall(id, outer, target) ==
  /\ pc = "idle"
  /\ UNCHANGED <<serv_inst, dropped>>
  /\ IF servers[id] = NoInst
       THEN /\ UNCHANGED servers
            /\ StopReturn("idle", id, outer, "Offline", target)
       ELSE IF IsStarting(servers[id])
         THEN /\ servers' = [servers EXCEPT ![id].stopTried = TRUE]
              /\ StopReturn("idle", id, outer, "StillStarting", target)
         ELSE /\ servers' = [servers EXCEPT ![id] =
                               [Probe(@) EXCEPT !.stopTried = TRUE]]
              /\ IF IsValid(servers[id])
                   THEN /\ pc' = "stop_push"
                        /\ call' = [op |-> "stop", id |-> id, msg |-> StopCmd,
                                    outer |-> outer, arg |-> target]
                        /\ UNCHANGED <<disk, last>>
                   ELSE StopReturn("idle", id, outer, "ProcessExited", target)

\* the push of self.send("/stop"), in Manager::stop or in a direct
\* Instance::stop (which returns here).
StopPush ==
  /\ pc = "stop_push"
  /\ QueueFree(servers[call.id])
  /\ servers' = [servers EXCEPT ![call.id] = Enqueue(@, call.msg)]
  /\ UNCHANGED <<disk, serv_inst, dropped>>
  /\ IF call.op = "istop"
       THEN Return("held", "istop", call.id, "Ok", "")
       ELSE pc' = "stop_lock" /\ UNCHANGED <<call, last>>

\* rw.write(): the caller takes the write lock of thread_cond (the pumps
\* hold its read lock only inside one step)
StopCondLock ==
  /\ pc = "stop_lock"
  /\ pc' = "stop_cond"
  /\ UNCHANGED <<disk, servers, serv_inst, call, last, dropped>>

\* a stop that goes on to the joins without lowering the flag
StopCond_NoLower ==
  /\ pc = "stop_cond"
  /\ pc' = "stop_join_out"
  /\ UNCHANGED <<disk, servers, serv_inst, call, last, dropped>>

\* *d = false under thread_cond's write lock, then drop(d)
StopCond ==
  /\ pc = "stop_cond"
  /\ servers' = [servers EXCEPT ![call.id].thread_cond = FALSE]
  /\ pc' = "stop_join_out"
  /\ UNCHANGED <<disk, serv_inst, call, last, dropped>>

StopJoinOut ==
  /\ pc = "stop_join_out"
  /\ Joined(servers[call.id].outPc)
  /\ servers' = [servers EXCEPT ![call.id].stdout_join = FALSE]
  /\ pc' = "stop_join_in"
  /\ UNCHANGED <<disk, serv_inst, call, last, dropped>>

StopJoinIn ==
  /\ pc = "stop_join_in"
  /\ Joined(servers[call.id].inPc)
  /\ servers' = [servers EXCEPT ![call.id].stdin_join = FALSE]
  /\ pc' = "stop_wait"
  /\ UNCHANGED <<disk, serv_inst, call, last, dropped>>

\* server_process.wait(), servers.remove(id), return Ok(())
StopWait ==
  /\ pc = "stop_wait"
  /\ Exited(servers[call.id])
  /\ servers' = [servers EXCEPT ![call.id] = NoInst]
  /\ dropped' = Drop(call.id, [servers[call.id] EXCEPT
                                 !.proc = IF @ = "exited" THEN "reaped" ELSE @])
  /\ UNCHANGED serv_inst
  /\ StopReturn("idle", call.id, call.outer, "Ok", call.arg)

Stop(id) == StopCall(id, "none", "")
Delete(id) == StopCall(id, "delete", "")
ChangeVersion(id, target) == StopCall(id, "change_version", target)

(* ------------------------ Manager::get, is_online --------------------- *)
\* a get that drops the entry of an instance whose process has exited
ManagerGet_Prune(id) ==
  /\ pc = "idle"
  /\ UNCHANGED <<disk, serv_inst, dropped>>
  /\ IF servers[id] = NoInst
       THEN /\ UNCHANGED servers
            /\ Return("idle", "get", id, "None", "")
       ELSE IF IsValid(servers[id])
         THEN /\ UNCHANGED servers
              /\ Return("held", "get", id, "Some", "")
         ELSE /\ servers' = [servers EXCEPT ![id] = NoInst]
              /\ Return("idle", "get", id, "None", "")

\* Manager::get: Some(instance) leaves the caller holding &mut Instance.
ManagerGet(id) ==
  /\ pc = "idle"
  /\ UNCHANGED <<disk, serv_inst, dropped>>
  /\ IF servers[id] = NoInst
       THEN /\ UNCHANGED servers
            /\ Return("idle", "get", id, "None", "")
       ELSE /\ servers' = [servers EXCEPT ![id] = Probe(@)]
            /\ IF IsValid(servers[id])
                 THEN Return("held", "get", id, "Some", "")
                 ELSE Return("idle", "get", id, "None", "")

\* Manager::is_online: get, reduced to a bool
IsOnline(id) ==
  /\ pc = "idle"
  /\ servers' = [servers EXCEPT ![id] = IF @ = NoInst THEN @ ELSE Probe(@)]
  /\ UNCHANGED <<disk, serv_inst, dropped>>
  /\ Return("idle", "is_online", id,
            IF servers[id] # NoInst /\ IsValid(servers[id]) THEN "true" ELSE "false",
            "")

\* Manager::exists
ExistsCall(id) ==
  /\ pc = "idle"
  /\ UNCHANGED <<disk, servers, serv_inst, dropped>>
  /\ Return("idle", "exists", id, IF Exists(id) THEN "true" ELSE "false", "")

\* the caller lets go of the &mut Instance
Release ==
  /\ pc = "held"
  /\ pc' = "idle"
  /\ call' = NoCall
  /\ UNCHANGED <<disk, servers, serv_inst, last, dropped>>

(* ------------------- Instance::send, get, stop (held) ----------------- *)
\* lines the caller queued through the held reference
UserSends(i) == Len(i.sent) - 1

\* a send without its process check
InstSend_NoProbe(msg) ==
  /\ pc = "held"
  /\ UserSends(servers[call.id]) < MaxSend
  /\ pc' = "send_push"
  /\ call' = [call EXCEPT !.op = "send", !.msg = msg]
  /\ UNCHANGED <<disk, servers, serv_inst, last, dropped>>

\* Instance::send: process_check()?
InstSend(msg) ==
  /\ pc = "held"
  /\ UserSends(servers[call.id]) < MaxSend
  /\ servers' = [servers EXCEPT ![call.id] = Probe(@)]
  /\ UNCHANGED <<disk, serv_inst, dropped>>
  /\ IF IsValid(servers[call.id])
       THEN /\ pc' = "send_push"
            /\ call' = [call EXCEPT !.op = "send", !.msg = msg]
            /\ UNCHANGED last
       ELSE Return("held", "send", call.id, "ProcessExited", "")

\* Instance::send: lock the queue, push, Ok(())
SendPush ==
  /\ pc = "send_push"
  /\ QueueFree(servers[call.id])
  /\ servers' = [servers EXCEPT ![call.id] = Enqueue(@, call.msg)]
  /\ UNCHANGED <<disk, serv_inst, dropped>>
  /\ Return("held", "send", call.id, "Ok", "")

\* a slice that starts one line late
SnapshotFrom_OffByOne(vec, start) ==
  LET start_line == IF start > Len(vec) THEN Len(vec) ELSE start
  IN SubSeq(vec, start_line + 2, Len(vec))

\* Instance::get: clamp start to the length, copy the rest of the log.
SnapshotFrom(vec, start) ==
  LET start_line == IF start > Len(vec) THEN Len(vec) ELSE start
  IN SubSeq(vec, start_line + 1, Len(vec))

InstGet(start) ==
  /\ pc = "held"
  /\ pc' = "ret"
  /\ last' = [op |-> "iget", id |-> call.id, res |-> "Ok", inner |-> "",
              arg |-> start,
              val |-> SnapshotFrom(servers[call.id].console_log, start),
              target |-> "", next |-> "held"]
  /\ UNCHANGED <<disk, servers, serv_inst, call, dropped>>

\* Instance::stop called directly: both process checks, then the push.
InstStop ==
  /\ pc = "held"
  /\ UserSends(servers[call.id]) < MaxSend
  /\ servers' = [servers EXCEPT ![call.id] = Probe(@)]
  /\ UNCHANGED <<disk, serv_inst, dropped>>
  /\ IF IsValid(servers[call.id])
       THEN /\ pc' = "stop_push"
            /\ call' = [call EXCEPT !.op = "istop", !.msg = StopCmd]
            /\ UNCHANGED last
       ELSE Return("held", "istop", call.id, "ProcessExited", "")

(* --------------------------- server process --------------------------- *)
Lives(s) == InstAt(s) # NoInst

\* the process writes a line to its stdout
ProcEmit(s, l) ==
  /\ Lives(s)
  /\ InstAt(s).proc = "running"
  /\ Len(InstAt(s).pipeOut) + Len(InstAt(s).console_log) < MaxOut
  /\ SetInst(s, [InstAt(s) EXCEPT !.pipeOut = Append(@, l)])
  /\ UNCHANGED <<disk, pc, call, last, dropped>>

\* the process exits (on its own, or after reading /stop)
ProcExit(s) ==
  /\ Lives(s)
  /\ InstAt(s).proc = "running"
  /\ SetInst(s, [InstAt(s) EXCEPT !.proc = "exited"])
  /\ UNCHANGED <<disk, pc, call, last, dropped>>

(* ----------------------------- stdout pump ---------------------------- *)
\* cond_reader1.read(), which waits while the caller holds the write lock:
\* break when the flag is false
OutCheck(s) ==
  /\ Lives(s)
  /\ InstAt(s).outPc = "check"
  /\ ~CondWriteHeld(s)
  /\ SetInst(s, [InstAt(s) EXCEPT
                   !.outPc = IF InstAt(s).thread_cond THEN "read" ELSE "done"])
  /\ UNCHANGED <<disk, pc, call, last, dropped>>

\* a pump that keeps only the newest line at the front
ConsolePush_Front(log, a) == <<a>> \o log

\* lock.push(a)
ConsolePush(log, a) == Append(log, a)

\* a test that takes every line for the marker
IsReady_AnyLine(a) == TRUE

\* &a[33..] == "[Server] SERVER READY"
IsReady(a) == a.tail = ReadyMarker

\* what the pump does with the line it read
OutLine(i, a) ==
  IF a.len < MarkerColumn
    THEN [i EXCEPT !.outPc = "panicked"]
    ELSE [i EXCEPT !.starting = IF IsReady(a) THEN FALSE ELSE @,
                   !.console_log = ConsolePush(@, a),
                   !.outPc = "check"]

\* reader.next(): a line, None at end of file, or blocked while the process
\* runs and has written nothing.
OutRead(s) ==
  /\ Lives(s)
  /\ InstAt(s).outPc = "read"
  /\ IF InstAt(s).pipeOut # <<>>
       THEN SetInst(s, OutLine([InstAt(s) EXCEPT !.pipeOut = Tail(@)],
                               Head(InstAt(s).pipeOut)))
       ELSE /\ InstAt(s).proc # "running"
            /\ SetInst(s, [InstAt(s) EXCEPT !.outPc = "check"])
  /\ UNCHANGED <<disk, pc, call, last, dropped>>

(* ----------------------------- stdin pump ----------------------------- *)
\* a pump that leaves as soon as the flag is lowered
ShouldBreak_FlagOnly(cond, vec) == ~cond

\* !*r1 && vec.len() == 0
ShouldBreak(cond, vec) == ~cond /\ Len(vec) = 0

\* stdin_arc.lock() (the caller holds the mutex only inside one step), then
\* cond_reader2.read(): while the caller holds the write lock the pump waits
\* for it with the queue locked ("locked"); otherwise the read of the flag
\* and the exit test follow, and an empty queue is drained at once.
InCheck(s) ==
  /\ Lives(s)
  /\ InstAt(s).inPc \in {"loop", "locked"}
  /\ IF CondWriteHeld(s)
       THEN /\ InstAt(s).inPc = "loop"
            /\ SetInst(s, [InstAt(s) EXCEPT !.inPc = "locked"])
       ELSE SetInst(s, [InstAt(s) EXCEPT
              !.inPc = IF ShouldBreak(InstAt(s).thread_cond, InstAt(s).stdin_queue)
                         THEN "done"
                         ELSE IF InstAt(s).stdin_queue = <<>>
                                THEN "loop" ELSE "drain"])
  /\ UNCHANGED <<disk, pc, call, last, dropped>>

\* one element of vec.drain(..): writeln! and flush, the queue still locked
DrainOne(i) ==
  [i EXCEPT !.stdin_queue = Tail(@),
            !.written = Append(@, Head(i.stdin_queue)),
            !.inPc = IF Tail(i.stdin_queue) = <<>> THEN "loop" ELSE "drain"]

InDrain(s) ==
  /\ Lives(s)
  /\ InstAt(s).inPc = "drain"
  /\ SetInst(s, DrainOne(InstAt(s)))
  /\ UNCHANGED <<disk, pc, call, last, dropped>>

Next ==
  \/ \E id \in Ids : Create(id, BaseVersion)
  \/ \E id \in Ids, port \in Ports : StartCall(id, port)
  \/ StartProbe
  \/ StartPush
  \/ \E id \in Ids : Stop(id)
  \/ \E id \in Ids : Delete(id)
  \/ \E id \in Ids : ChangeVersion(id, BaseVersion)
  \/ StopPush
  \/ StopCondLock
  \/ StopCond
  \/ StopJoinOut
  \/ StopJoinIn
  \/ StopWait
  \/ \E id \in Ids : ManagerGet(id)
  \/ \E id \in Ids : IsOnline(id)
  \/ \E id \in Ids : ExistsCall(id)
  \/ Resume
  \/ Release
  \/ \E msg \in Msgs : InstSend(msg)
  \/ SendPush
  \/ \E start \in 0..(MaxOut + 1) : InstGet(start)
  \/ InstStop
  \/ \E s \in Slots, l \in Lines : ProcEmit(s, l)
  \/ \E s \in Slots : ProcExit(s)
  \/ \E s \in Slots : OutCheck(s)
  \/ \E s \in Slots : OutRead(s)
  \/ \E s \in Slots : InCheck(s)
  \/ \E s \in Slots : InDrain(s)

Spec == Init /\ [][Next]_vars

\* The same program with the Manager built for any jar name, and create and
\* change_version called with any version.
InitJar == \E jar \in JarNames : InitWith(jar)

NextJar ==
  \/ Next
  \/ \E id \in Ids, version \in Versions : Create(id, version)
  \/ \E id \in Ids, target \in Versions : ChangeVersion(id, target)

JarSpec == InitJar /\ [][NextJar]_vars

(* ============================ properties ============================== *)
InstAtNext(s) == IF s = Local THEN serv_inst' ELSE servers'[s]

IsPrefix(u, v) == Len(u) <= Len(v) /\ SubSeq(v, 1, Len(u)) = u

\* the processes spawned for id that are alive
LiveProcs(id) ==
  dropped[id].live
  + (IF servers[id].proc = "running" THEN 1 ELSE 0)
  + (IF serv_inst.id = id /\ serv_inst.proc = "running" THEN 1 ELSE 0)

\* C1: a Manager::stop(id) on a registered instance whose process has already
\* exited on its own returns at once and leaves id out of the registry,
\* whatever result it reports.
C1_StopAfterExitRemoves ==
  [][\A id \in Ids :
       (Stop(id) /\ servers[id] # NoInst /\ servers[id].proc # "running")
         => servers'[id] = NoInst]_vars

\* C2: a start(id) issued while an instance is registered for id, no stop
\* having been called on it, fails with AlreadyOnline, spawns nothing and
\* leaves the registered instance and the registry as they were.
C2_SecondStartRejected ==
  [][\A id \in Ids, port \in Ports :
       (StartCall(id, port) /\ servers[id] # NoInst /\ ~servers[id].stopTried)
         => /\ pc' = "ret"
            /\ last'.op = "start" /\ last'.id = id /\ last'.res = "AlreadyOnline"
            /\ servers' = servers
            /\ serv_inst' = serv_inst
            /\ dropped' = dropped]_vars

C2_Witness ==
  /\ pc = "ret" /\ last.op = "start" /\ last.res = "AlreadyOnline"
  /\ servers[last.id] # NoInst
  /\ ~servers[last.id].stopTried
  /\ servers[last.id].proc = "running"

\* C3: in every reachable state at most one process spawned for an id is
\* alive (so no start spawns one while an earlier one still runs).
C3_OneLiveProcess == \A id \in Ids : LiveProcs(id) <= 1

\* a start has been refused after a failed stop, the one process of the id
\* still running
C3_Witness ==
  /\ pc = "ret" /\ last.op = "start" /\ last.res # "Ok"
  /\ servers[last.id].stopTried
  /\ LiveProcs(last.id) = 1

\* C4: when the stdin pump has ended, the queue is empty and the lines it
\* wrote to the process's stdin are exactly the lines queued, each once and
\* in the order of the calls, the last being the graceful-stop command.
C4_QueueDeliveredInOrder ==
  \A s \in Slots :
    InstAt(s).inPc = "done"
      => /\ InstAt(s).stdin_queue = <<>>
         /\ InstAt(s).written = InstAt(s).sent
         /\ InstAt(s).sent # <<>>
         /\ InstAt(s).sent[Len(InstAt(s).sent)] = StopCmd

\* the pump has ended after the handshake, a caller's message and /stop
C4_Witness ==
  \E id \in Ids :
    /\ servers[id].inPc = "done"
    /\ Len(servers[id].written) = 3
    /\ servers[id].written[2] \in Msgs
    /\ servers[id].proc = "running"
    /\ pc = "stop_wait"

\* C5: id leaves the registry only in the last step of a successful stop,
\* with both pump threads ended and the process exited and waited on, so
\* the removed instance leaves no thread and no process behind; and a stop
\* reports success only in that step.
C5_RemovedAfterTeardown ==
  [][\A id \in Ids :
       /\ (servers[id] # NoInst /\ servers'[id] = NoInst)
            => /\ servers[id].outPc \in {"done", "panicked"}
               /\ servers[id].inPc = "done"
               /\ servers[id].proc # "running"
               /\ dropped' = dropped
               /\ pc = "stop_wait" /\ pc' = "ret"
               /\ last'.id = id
               /\ (last'.op = "stop" /\ last'.res = "Ok") \/ last'.inner = "Ok"
       /\ ( /\ pc # "ret" /\ pc' = "ret" /\ last'.id = id
            /\ (last'.op = "stop" /\ last'.res = "Ok") \/ last'.inner = "Ok" )
            => (servers[id] # NoInst /\ servers'[id] = NoInst)]_vars

C5_Witness ==
  /\ pc = "ret" /\ last.op = "stop" /\ last.res = "Ok"
  /\ servers[last.id] = NoInst
  /\ dropped[last.id].unreaped = 0

Outers == {"none", "delete", "change_version"}

\* the version a call of stop from outer carries in Spec
StopTarget(outer) == IF outer = "change_version" THEN BaseVersion ELSE ""

\* the result Manager::stop reported in the step that has just been taken
StopResult(outer) == IF outer = "none" THEN last'.res ELSE last'.inner

\* C6: stop(id) fails with Offline when id is not registered and with
\* StillStarting when the registered instance is still starting, and in both
\* cases changes nothing of the registry or of any instance; the stop command
\* is queued and the shutdown flag lowered only for an instance that is Ready.
C6_StopFailuresChangeNothing ==
  [][\A id \in Ids :
       /\ \A outer \in Outers :
            /\ (StopCall(id, outer, StopTarget(outer)) /\ servers[id] = NoInst)
                 => /\ pc' = "ret" /\ StopResult(outer) = "Offline"
                    /\ servers' = servers /\ serv_inst' = serv_inst
                    /\ dropped' = dropped
            /\ ( /\ StopCall(id, outer, StopTarget(outer))
                 /\ servers[id] # NoInst /\ servers[id].starting )
                 => /\ pc' = "ret" /\ StopResult(outer) = "StillStarting"
                    /\ [servers'[id] EXCEPT !.stopTried = FALSE]
                         = [servers[id] EXCEPT !.stopTried = FALSE]
                    /\ serv_inst' = serv_inst
                    /\ dropped' = dropped
       /\ (pc' = "stop_push" /\ call'.op = "stop" /\ call'.id = id)
            => ~servers[id].starting
       /\ (servers[id].thread_cond /\ servers'[id] # NoInst
           /\ ~servers'[id].thread_cond)
            => ~servers[id].starting]_vars

C6_Witness ==
  /\ pc = "ret" /\ last.op = "stop" /\ last.res = "StillStarting"
  /\ servers[last.id] # NoInst
  /\ servers[last.id].starting
  /\ servers[last.id].thread_cond
  /\ servers[last.id].stdin_join

\* C7: Manager::get(id) returns the instance exactly when id is registered
\* and its process has not exited; it never adds or removes a registry entry
\* and changes nothing of an instance but the collected exit status.
C7_GetOnlyLive ==
  [][\A id \in Ids :
       ManagerGet(id)
         => /\ pc' = "ret" /\ last'.op = "get"
            /\ (last'.res = "Some")
                 <=> (servers[id] # NoInst /\ servers[id].proc = "running")
            /\ last'.res \in {"Some", "None"}
            /\ {k \in Ids : servers'[k] # NoInst} = {k \in Ids : servers[k] # NoInst}
            /\ \A k \in Ids :
                 [servers'[k] EXCEPT !.proc = servers[k].proc] = servers[k]]_vars

\* get has returned nothing for an id that is still registered
C7_Witness ==
  /\ pc = "ret" /\ last.op = "get" /\ last.res = "None"
  /\ servers[last.id] # NoInst
  /\ servers[last.id].proc = "reaped"

\* C8: Instance::send fails with ProcessExited and leaves the queue as it
\* was when the process has exited; when its probe finds the process running
\* it goes on to append msg at the tail of the queue and returns Ok.
C8_SendProbesFirst ==
  [][/\ \A msg \in Msgs :
          InstSend(msg)
            => IF servers[call.id].proc # "running"
                 THEN /\ pc' = "ret" /\ last'.op = "send"
                      /\ last'.res = "ProcessExited"
                      /\ servers'[call.id].stdin_queue = servers[call.id].stdin_queue
                      /\ servers'[call.id].sent = servers[call.id].sent
                 ELSE /\ pc' = "send_push" /\ call'.msg = msg
                      /\ servers' = servers
     /\ SendPush
          => /\ pc' = "ret" /\ last'.op = "send" /\ last'.res = "Ok"
             /\ servers'[call.id].stdin_queue
                  = Append(servers[call.id].stdin_queue, call.msg)]_vars

\* a send has been refused on an exited process with lines still queued
C8_Witness ==
  /\ pc = "ret" /\ last.op = "send" /\ last.res = "ProcessExited"
  /\ servers[last.id].proc = "reaped"
  /\ servers[last.id].stdin_queue # <<>>

\* the Instance at s before a step is the one at t after it: the same place,
\* or serv_inst moved into the registry by start's insert
SameInstance(s, t) ==
  \/ s = t
  \/ s = Local /\ pc = "start_push" /\ t = call.id

\* C9: in every step the console buffer of an instance is a prefix of what
\* it is after the step.
C9_ConsoleAppendOnly ==
  [][\A s \in Slots, t \in Slots :
       (InstAt(s) # NoInst /\ InstAtNext(t) # NoInst /\ SameInstance(s, t))
         => IsPrefix(InstAt(s).console_log, InstAtNext(t).console_log)]_vars

\* two different lines have been appended
C9_Witness ==
  \E id \in Ids :
    /\ Len(servers[id].console_log) = 2
    /\ servers[id].console_log[1] # servers[id].console_log[2]

\* C10: Instance::get(start) never fails and returns exactly the buffered
\* lines of index >= start, in order (none when start is past the end, all
\* of them for start = 0); the result is a function of the buffer and start
\* alone, and the call leaves the buffer and the instance unchanged.
C10_SnapshotFrom ==
  [][\A start \in 0..(MaxOut + 1) :
       InstGet(start)
         => LET log == servers[call.id].console_log
                n == IF start >= Len(log) THEN 0 ELSE Len(log) - start
            IN /\ pc' = "ret" /\ last'.op = "iget" /\ last'.res = "Ok"
               /\ Len(last'.val) = n
               /\ \A k \in 1..n : last'.val[k] = log[start + k]
               /\ (start > Len(log) => last'.val = <<>>)
               /\ (start = 0 => last'.val = log)
               /\ servers' = servers]_vars

\* a proper, non-empty suffix has been returned
C10_Witness ==
  /\ pc = "ret" /\ last.op = "iget" /\ last.arg = 1
  /\ Len(last.val) = 1
  /\ Len(servers[last.id].console_log) = 2

\* C11: the starting flag of an instance never goes back from false to true
\* (so it falls at most once), and it falls only in the step in which the
\* stdout pump reads a line that carries the readiness marker at column 33;
\* no step of the caller or of the stdin pump changes it.
C11_ReadyOnceByMarker ==
  [][\A s \in Slots, t \in Slots :
       (InstAt(s) # NoInst /\ InstAtNext(t) # NoInst /\ SameInstance(s, t))
         => /\ ~InstAt(s).starting => ~InstAtNext(t).starting
            /\ (InstAt(s).starting /\ ~InstAtNext(t).starting)
                 => /\ s = t
                    /\ OutRead(s)
                    /\ InstAt(s).outPc = "read"
                    /\ InstAt(s).pipeOut # <<>>
                    /\ Head(InstAt(s).pipeOut).len >= MarkerColumn
                    /\ Head(InstAt(s).pipeOut).tail = ReadyMarker
                    /\ pc' = pc /\ call' = call /\ last' = last]_vars

\* the marker has been read twice by a registered instance that is Ready
C11_Witness ==
  \E id \in Ids :
    /\ servers[id] # NoInst
    /\ ~servers[id].starting
    /\ servers[id].console_log = <<ReadyLine, ReadyLine>>

\* the stdout pump of s compares a line with the readiness marker in this step
TestsLine(s) ==
  /\ OutRead(s)
  /\ InstAt(s).pipeOut # <<>>
  /\ Head(InstAt(s).pipeOut).len >= MarkerColumn

\* C12: the stdout pump of an instance compares no line with the readiness
\* marker before start has put the handshake command on that instance's
\* command queue.
C12_HandshakeBeforeTest ==
  [][\A s \in Slots : TestsLine(s) => InstAt(s).sent # <<>>]_vars

\* C13: when delete(id) has returned having removed the working directory,
\* no instance is registered for id and no process spawned for id is running.
C13_DeleteStopsServer ==
  (pc = "ret" /\ last.op = "delete" /\ last.res = "Ok")
    => /\ servers[last.id] = NoInst
       /\ LiveProcs(last.id) = 0

(* ---------------------- scheduling and fairness ----------------------- *)
\* the caller thread goes on inside the call it has entered, and looks at
\* the result it was given
CallerStep ==
  \/ StartProbe
  \/ StartPush
  \/ StopPush
  \/ StopCondLock
  \/ StopCond
  \/ StopJoinOut
  \/ StopJoinIn
  \/ StopWait
  \/ SendPush
  \/ Resume

\* a step of the stdout pump thread of s
OutStep(s) == OutCheck(s) \/ OutRead(s)

\* a step of the stdin pump thread of s
InStep(s) == InCheck(s) \/ InDrain(s)

\* the server process exits once the stdin pump has written /stop to it
ProcReadsStop(s) ==
  /\ Lives(s)
  /\ StopCmd \in {InstAt(s).written[k] : k \in 1..Len(InstAt(s).written)}
  /\ ProcExit(s)

\* Every thread that can run is scheduled, and a process that has been given
\* the graceful-stop command exits.  The caller is free never to call again.
FairSpec ==
  /\ Spec
  /\ WF_vars(CallerStep)
  /\ \A s \in Slots : WF_vars(OutStep(s))
  /\ \A s \in Slots : WF_vars(InStep(s))
  /\ \A s \in Slots : WF_vars(ProcReadsStop(s))

\* both pump threads of i have ended and its process is not running
AllEnded(i) ==
  /\ ~ThreadRunning(i.outPc)
  /\ ~ThreadRunning(i.inPc)
  /\ i.proc # "running"

\* C14: once a direct Instance::stop has returned Ok, the process of that
\* instance ends and both its pump threads end.
C14_InstanceStopEndsWorkers ==
  \A id \in Ids :
    (pc = "ret" /\ last.op = "istop" /\ last.res = "Ok" /\ last.id = id)
      ~> AllEnded(servers[id])

\* Manager::stop (direct, or inside delete / change_version) has reported Ok
StopOk == (last.op = "stop" /\ last.res = "Ok") \/ last.inner = "Ok"

\* C15: with every thread scheduled and the process exiting once /stop has
\* been written to it, a Manager::stop that found the instance Ready and its
\* process alive eventually returns Ok, the instance removed from the
\* registry and no process of the id left running.
C15_StopTerminates ==
  \A id \in Ids :
    (pc = "stop_push" /\ call.op = "stop" /\ call.id = id)
      ~> (pc = "ret" /\ last.id = id /\ StopOk
          /\ servers[id] = NoInst /\ LiveProcs(id) = 0)

\* the caller waits in the join of the stdout pump, which is blocked in its
\* read until the process, /stop written to it, exits
C15_Witness ==
  /\ pc = "stop_join_out" /\ call.op = "stop"
  /\ servers[call.id].outPc = "read"
  /\ servers[call.id].pipeOut = <<>>
  /\ servers[call.id].proc = "running"
  /\ servers[call.id].inPc = "done"
  /\ servers[call.id].written[Len(servers[call.id].written)] = StopCmd

\* C16: a start that returns an error leaves the registry as it was and
\* leaves behind no running process and no running pump thread of the
\* instance it was building; and a registered instance always has a spawned
\* process and both its pump threads started.
C16_StartAllOrNothing ==
  [][/\ (pc # "ret" /\ pc' = "ret" /\ last'.op = "start" /\ last'.res # "Ok")
          => /\ servers' = servers
             /\ serv_inst' = NoInst
             /\ Leftover(serv_inst).live = 0
             /\ Leftover(serv_inst).threads = 0
     /\ \A id \in Ids :
          servers'[id] # NoInst
            => /\ servers'[id].proc # "none"
               /\ servers'[id].outPc # "none"
               /\ servers'[id].inPc # "none"]_vars

\* the two checks of start(id) pass after the step: the working directory
\* exists and no instance is registered for id
StartWouldSpawn(id) == id \in files' /\ servers'[id] = NoInst

\* C17: a stop(id) called while the process of the registered instance has
\* exited on its own (the instance Starting or Ready) and the working
\* directory exists leaves id such that the start(id) that follows passes
\* its checks and spawns a new process instead of failing AlreadyOnline.
C17_CrashedCanRestart ==
  [][\A id \in Ids :
       ( /\ Stop(id)
         /\ servers[id] # NoInst
         /\ servers[id].proc # "running"
         /\ Exists(id) )
         => StartWouldSpawn(id)]_vars

\* C18: whatever their inner stop reported, delete and change_version fail
\* with FilesMissing exactly when the working directory is absent, and
\* otherwise do their filesystem change and report Ok or the filesystem's
\* error; delete removes the directory exactly when it reports Ok.
C18_StopResultIgnored ==
  [][\A id \in Ids :
       ( /\ pc # "ret" /\ pc' = "ret" /\ last'.id = id
         /\ \/ last'.op \in {"delete", "change_version"}
            \/ Delete(id) \/ ChangeVersion(id, BaseVersion)
            \/ (pc = "stop_wait" /\ call.outer # "none") )
         => /\ last'.op \in {"delete", "change_version"}
            /\ last'.inner \in {"Ok", "Offline", "StillStarting", "ProcessExited"}
            /\ last'.res \in {"FilesMissing", "Ok", "IoError"}
            /\ (last'.res = "FilesMissing") <=> ~Exists(id)
            /\ files' = IF last'.op = "delete" /\ last'.res = "Ok"
                          THEN files \ {id}
                          ELSE files]_vars

\* a delete whose stop succeeded has found the directory already gone
C18_Witness ==
  /\ pc = "ret" /\ last.op = "delete"
  /\ last.res = "FilesMissing" /\ last.inner = "Ok"

\* C19: whatever line the stdout pump reads while the shutdown flag is still
\* up, of any length, it appends that line to the console buffer and goes on
\* with its loop.
C19_EveryLineAppended ==
  [][\A s \in Slots :
       (OutRead(s) /\ InstAt(s).pipeOut # <<>> /\ InstAt(s).thread_cond)
         => /\ InstAtNext(s).console_log
                 = Append(InstAt(s).console_log, Head(InstAt(s).pipeOut))
            /\ InstAtNext(s).outPc = "check"]_vars

\* the stdout pump of i can take a step
OutCanStep(i) ==
  \/ i.outPc = "check"
  \/ i.outPc = "read" /\ (i.pipeOut # <<>> \/ i.proc # "running")

\* C20: once the shutdown flag of an instance has been lowered, its stdout
\* pump, as long as it has not ended, can always take its next step: it is
\* never left waiting in a read for a process that is silent and running.
C20_PumpNeverBlockedAfterSignal ==
  \A s \in Slots :
    (Lives(s) /\ ~InstAt(s).thread_cond /\ ThreadRunning(InstAt(s).outPc))
      => OutCanStep(InstAt(s))

(* ------------------------------- locks -------------------------------- *)
\* the threads: the caller, and the stdout and stdin pump of each instance
Caller == <<"caller", "">>
OutPump(s) == <<"out", s>>
InPump(s) == <<"in", s>>
Threads == {Caller} \cup {OutPump(s) : s \in Slots} \cup {InPump(s) : s \in Slots}

\* the locks of each instance
LockNames == {"stdin_queue", "console_log", "thread_cond", "starting"}
Locks == LockNames \X Slots

\* Thread t holds lock l from one step to the next.  The console_log mutex,
\* the starting lock, the read locks of thread_cond and the caller's hold of
\* stdin_queue are taken and released inside one step, with no wait between.
Holds(t, l) ==
  \/ /\ t = Caller
     /\ l[1] = "thread_cond"
     /\ CondWriteHeld(l[2])
  \/ /\ t = InPump(l[2])
     /\ l[1] = "stdin_queue"
     /\ Lives(l[2])
     /\ ~QueueFree(InstAt(l[2]))

\* the caller is at a push on the queue of s: vec_lock.lock() in send
CallerAtPush(s) ==
  \/ pc = "start_push" /\ s = Local
  \/ pc \in {"stop_push", "send_push"} /\ s = call.id

\* Thread t has asked for lock l and cannot have it yet.
Waits(t, l) ==
  \/ /\ t = Caller
     /\ l[1] = "stdin_queue"
     /\ CallerAtPush(l[2])
     /\ ~QueueFree(InstAt(l[2]))
  \/ /\ t = InPump(l[2])
     /\ l[1] = "thread_cond"
     /\ InstAt(l[2]).inPc = "locked"
  \/ /\ t = OutPump(l[2])
     /\ l[1] = "thread_cond"
     /\ InstAt(l[2]).outPc = "check"
     /\ CondWriteHeld(l[2])

\* C21: in no reachable state does the stdin pump hold the stdin_queue mutex
\* while it writes a line to the process's stdin and flushes it, nor the
\* stdout pump the console_log mutex while it reads from the process.
C21_NoIoUnderLock ==
  \A s \in Slots :
    /\ (Lives(s) /\ InstAt(s).inPc = "drain")
         => ~Holds(InPump(s), <<"stdin_queue", s>>)
    /\ (Lives(s) /\ InstAt(s).outPc = "read")
         => ~Holds(OutPump(s), <<"console_log", s>>)

\* C22: the set of registered ids changes only in the last step of a start
\* that returns Ok, which adds the id of that call, and in the last step of
\* a stop that returns Ok (called directly or by delete / change_version),
\* which removes the id of that call; every start that returns Ok adds its
\* id.  No other step (create, exists, get, is_online, Instance::send,
\* Instance::get, the pumps, the process, a failing start or stop) changes it.
C22_RegistryFrame ==
  [][/\ Registered' # Registered
          => \/ /\ pc = "start_push" /\ pc' = "ret"
                /\ last'.op = "start" /\ last'.res = "Ok"
                /\ last'.id = call.id
                /\ last'.id \notin Registered
                /\ Registered' = Registered \cup {last'.id}
             \/ /\ pc = "stop_wait" /\ pc' = "ret"
                /\ (last'.op = "stop" /\ last'.res = "Ok") \/ last'.inner = "Ok"
                /\ last'.id = call.id
                /\ last'.id \in Registered
                /\ Registered' = Registered \ {last'.id}
     /\ (pc # "ret" /\ pc' = "ret" /\ last'.op = "start" /\ last'.res = "Ok")
          => /\ last'.id \notin Registered
             /\ Registered' = Registered \cup {last'.id}]_vars

\* a start has just registered an instance whose queue holds the handshake
C22_Witness ==
  /\ pc = "ret" /\ last.op = "start" /\ last.res = "Ok"
  /\ Registered = {last.id}
  /\ servers[last.id].sent = <<HandshakeCmd>>
  /\ servers[last.id].stdin_join /\ servers[last.id].stdout_join

\* C23 as claimed: whenever Instance::send appends its message to the queue,
\* the process of that instance is running.
C23_NoEnqueueAfterExit ==
  [][SendPush => servers[call.id].proc = "running"]_vars

\* C23 as amended: whenever Instance::send appends its message, the probe of
\* that same call found the process running and no probe has seen it exited
\* since (the process may have exited after the probe, not yet observed);
\* the message is appended and the call returns Ok.
C23_EnqueueAfterLiveProbe ==
  [][/\ \A msg \in Msgs :
          (InstSend(msg) /\ pc' = "send_push")
            => /\ servers[call.id].proc = "running"
               /\ servers'[call.id].proc = "running"
     /\ pc = "send_push" => servers[call.id].proc \in {"running", "exited"}
     /\ SendPush
          => /\ servers[call.id].proc \in {"running", "exited"}
             /\ pc' = "ret" /\ last'.op = "send" /\ last'.res = "Ok"
             /\ servers'[call.id].sent = Append(servers[call.id].sent, call.msg)]_vars

\* a send has returned Ok having queued its message after the process exited
C23_Witness ==
  /\ pc = "ret" /\ last.op = "send" /\ last.res = "Ok"
  /\ servers[last.id].proc = "exited"
  /\ servers[last.id].stdin_queue # <<>>
  /\ servers[last.id].stdin_queue[Len(servers[last.id].stdin_queue)] \in Msgs
  /\ servers[last.id].inPc = "loop"
  /\ servers[last.id].written = <<HandshakeCmd>>

\* C24: in no reachable state do two threads each hold a lock and wait for
\* the lock the other holds.
C24_NoCircularWait ==
  \A t1 \in Threads, l1 \in Locks :
    Holds(t1, l1)
      => \A l2 \in Locks :
           Waits(t1, l2)
             => \A t2 \in Threads \ {t1} :
                  ~(Holds(t2, l2) /\ Waits(t2, l1))

\* the stdin pump holds the queue mutex and waits for the read lock of
\* thread_cond, whose write lock the caller holds inside Manager::stop
C24_Witness ==
  \E id \in Ids :
    /\ Holds(InPump(id), <<"stdin_queue", id>>)
    /\ Waits(InPump(id), <<"thread_cond", id>>)
    /\ Holds(Caller, <<"thread_cond", id>>)
    /\ Waits(OutPump(id), <<"thread_cond", id>>)

\* C25: when change_version(id, target) returns Ok, the file of id's working
\* directory that a following start(id) hands to java -jar, the one named
\* jar_name, is target's, whatever jar name the Manager was built with.
C25_ChangedJarIsLaunched ==
  [][\A id \in Ids :
       ( /\ pc # "ret" /\ pc' = "ret"
         /\ last'.op = "change_version" /\ last'.res = "Ok" /\ last'.id = id )
         => jars'[id] = last'.target]_vars
====
